---- MODULE Spec2Model ----
(***************************************************************************)
(* The item CRUD service of src/main.py: five FastAPI handlers over the    *)
(* module-level dictionary fake_db.  Each handler is an `async def` with   *)
(* no `await` in its body, so a handler runs to completion on the event    *)
(* loop once it is called; a request is "in flight" between the moment     *)
(* its body has been read and validated and the moment its handler runs.   *)
(***************************************************************************)
EXTENDS Integers, Sequences, FiniteSets, Bags, TLC

VARIABLES
    fake_db,    \* the dictionary of line 39, as the sequence of its entries in insertion order
    issued,     \* the identifiers uuid.uuid4() has returned so far, oldest first
    inflight,   \* bag of validated requests whose handler has not run yet
    last,       \* the request handled most recently and the response it got
    stored,     \* history: id -> input of the latest successful Create/Update, ids deleted removed
    pristine,   \* history: ids created and not yet the subject of a successful Update/Delete
    gone,       \* history: ids deleted with success since the latest successful Create
    deleted,    \* history: every id a Delete has succeeded on
    raced       \* history: ids deleted with success while an Update of them was in flight

vars == <<fake_db, issued, inflight, last, stored, pristine, gone, deleted, raced>>

-----------------------------------------------------------------------------
(* Bounds and input domains *)

MaxIds == 2
MaxInFlight == 2

\* Optional[T]: None is the empty tuple, a present value v is <<v>>.
None == <<>>
Some(v) == <<v>>

\* Field values the clients send.  The handlers copy name and price alike, as
\* required fields, so the required fields vary through name and the optional
\* ones through description and tax.
Names == {"", "Pen"}
Descriptions == {"old"}
Prices == {1}
Taxes == {3}

Optional(S) == {None} \cup {Some(v) : v \in S}

\* JSON request bodies: every key may be absent (None).
Bodies == [name : Optional(Names), description : Optional(Descriptions),
           price : Optional(Prices), tax : Optional(Taxes)]

\* str(uuid.uuid4()): the textual form of the n-th identifier.
str(n) == "id" \o ToString(n)

UUIDs == {str(n) : n \in 1..MaxIds}

\* Path parameters a client may send: identifiers generated already (live or
\* deleted) and identifiers not generated yet (never created).
PathIds == UUIDs

NoPath == ""
NoItem == [none |-> TRUE]

HTTP_200_OK == 200
HTTP_201_CREATED == 201
HTTP_204_NO_CONTENT == 204
HTTP_404_NOT_FOUND == 404
HTTP_422_UNPROCESSABLE == 422

-----------------------------------------------------------------------------
(* Pydantic models *)

\* ItemCreate(**body): name and price are required, description and tax default to None.
FieldRequired(missing) == {[loc |-> f, msg |-> "field required"] : f \in missing}

\* A variant with name: constr(min_length=1).
ItemCreate_min_length(body) ==
    LET missing == {f \in {"name", "price"} : body[f] = None}
        short == IF body.name = Some("")
                 THEN {[loc |-> "name", msg |-> "ensure this value has at least 1 characters"]}
                 ELSE {}
    IN  IF missing # {} \/ short # {}
        THEN [ok |-> FALSE, errors |-> FieldRequired(missing) \cup short]
        ELSE [ok |-> TRUE,
              item |-> [name |-> body.name[1], description |-> body.description,
                        price |-> body.price[1], tax |-> body.tax]]

\* ItemCreate(**body): name and price are required, description and tax default
\* to None; nothing but presence (and type) is validated.
ItemCreate(body) ==
    LET missing == {f \in {"name", "price"} : body[f] = None}
    IN  IF missing # {}
        THEN [ok |-> FALSE, errors |-> FieldRequired(missing)]
        ELSE [ok |-> TRUE,
              item |-> [name |-> body.name[1], description |-> body.description,
                        price |-> body.price[1], tax |-> body.tax]]

ValidBodies == {b \in Bodies : ItemCreate(b).ok}
InvalidBodies == Bodies \ ValidBodies

\* The validation errors the invalid bodies draw: what a rejected request is answered with.
ValidationErrors == {ItemCreate(b).errors : b \in InvalidBodies}

\* Item(id=item_id, **item.dict())
Item(item_id, item) ==
    [id |-> item_id, name |-> item.name, description |-> item.description,
     price |-> item.price, tax |-> item.tax]

-----------------------------------------------------------------------------
(* Python dict operations on fake_db *)

Keys(db) == {db[i].key : i \in DOMAIN db}

Contains(db, k) == k \in Keys(db)

GetItem(db, k) == db[CHOOSE i \in DOMAIN db : db[i].key = k].value

SetItem(db, k, v) ==
    IF Contains(db, k)
    THEN [i \in DOMAIN db |-> IF db[i].key = k THEN [key |-> k, value |-> v] ELSE db[i]]
    ELSE Append(db, [key |-> k, value |-> v])

DelItem(db, k) == SelectSeq(db, LAMBDA e : e.key # k)

Values(db) == [i \in DOMAIN db |-> db[i].value]

-----------------------------------------------------------------------------
(* The handlers: each yields the dictionary it leaves and the response *)

NotFound(db) ==
    [db |-> db, status |-> HTTP_404_NOT_FOUND,
     result |-> [detail |-> "Elemento no encontrado"]]

Unprocessable(db, errors) ==
    [db |-> db, status |-> HTTP_422_UNPROCESSABLE, result |-> [detail |-> errors]]

\* A generator that repeats itself: every call yields the first identifier.
uuid4_fixed == IF Len(issued) < MaxIds THEN {str(1)} ELSE {}

\* uuid.uuid4(): a value it has not returned before.  The handlers only store
\* identifiers and compare them for equality, so which fresh value comes is
\* immaterial: the n-th call yields the n-th identifier, and the pool of
\* MaxIds identifiers caps the number of creations.
uuid4 == {str(n) : n \in {Len(issued) + 1} \cap (1..MaxIds)}

\* A variant that refuses duplicate names: a record of the same name is overwritten.
create_item_dedup(db, item_id, item) ==
    LET same == {k \in Keys(db) : GetItem(db, k).name = item.name}
        key == IF same = {} THEN item_id ELSE CHOOSE k \in same : TRUE
        new_item == Item(key, item)
    IN  [db |-> SetItem(db, key, new_item), status |-> HTTP_201_CREATED,
         result |-> new_item]

\* A variant that files the record under its name: fake_db[item.name] = new_item.
create_item_by_name(db, item_id, item) ==
    LET new_item == Item(item_id, item)
    IN  [db |-> SetItem(db, item.name, new_item), status |-> HTTP_201_CREATED,
         result |-> new_item]

create_item(db, item_id, item) ==
    LET new_item == Item(item_id, item)
    IN  [db |-> SetItem(db, item_id, new_item), status |-> HTTP_201_CREATED,
         result |-> new_item]

read_items(db) == [db |-> db, status |-> HTTP_200_OK, result |-> Values(db)]

read_item(db, item_id) ==
    IF ~Contains(db, item_id)
    THEN NotFound(db)
    ELSE [db |-> db, status |-> HTTP_200_OK, result |-> GetItem(db, item_id)]

\* A variant that merges: a field the input leaves None keeps its stored value.
update_item_merge(db, item_id, item) ==
    IF ~Contains(db, item_id)
    THEN NotFound(db)
    ELSE LET old == GetItem(db, item_id)
             merged == [name |-> item.name,
                        description |-> IF item.description = None THEN old.description
                                        ELSE item.description,
                        price |-> item.price,
                        tax |-> IF item.tax = None THEN old.tax ELSE item.tax]
             updated_item == Item(item_id, merged)
         IN  [db |-> SetItem(db, item_id, updated_item), status |-> HTTP_200_OK,
              result |-> updated_item]

\* A variant without the existence check: an absent id is inserted.
update_item_upsert(db, item_id, item) ==
    LET updated_item == Item(item_id, item)
    IN  [db |-> SetItem(db, item_id, updated_item), status |-> HTTP_200_OK,
         result |-> updated_item]

update_item(db, item_id, item) ==
    IF ~Contains(db, item_id)
    THEN NotFound(db)
    ELSE LET updated_item == Item(item_id, item)
         IN  [db |-> SetItem(db, item_id, updated_item), status |-> HTTP_200_OK,
              result |-> updated_item]

\* A variant that answers 204 and forgets the del statement.
delete_item_keep(db, item_id) ==
    IF ~Contains(db, item_id)
    THEN NotFound(db)
    ELSE [db |-> db, status |-> HTTP_204_NO_CONTENT,
          result |-> [message |-> "Elemento eliminado exitosamente"]]

\* An idempotent variant: fake_db.pop(item_id, None), with no existence check.
delete_item_idempotent(db, item_id) ==
    [db |-> DelItem(db, item_id), status |-> HTTP_204_NO_CONTENT,
     result |-> [message |-> "Elemento eliminado exitosamente"]]

delete_item(db, item_id) ==
    IF ~Contains(db, item_id)
    THEN NotFound(db)
    ELSE [db |-> DelItem(db, item_id), status |-> HTTP_204_NO_CONTENT,
          result |-> [message |-> "Elemento eliminado exitosamente"]]

-----------------------------------------------------------------------------
(* Requests and their handling *)

Request(op, item_id, item) == [op |-> op, item_id |-> item_id, item |-> item]

\* The handler the router calls for a validated request; new_id is what
\* uuid.uuid4() yields should the handler ask for one.
Dispatch(db, req, new_id) ==
    CASE req.op = "create" -> create_item(db, new_id, req.item)
      [] req.op = "list"   -> read_items(db)
      [] req.op = "get"    -> read_item(db, req.item_id)
      [] req.op = "update" -> update_item(db, req.item_id, req.item)
      [] req.op = "delete" -> delete_item(db, req.item_id)

Remove(f, k) == [x \in DOMAIN f \ {k} |-> f[x]]

\* Optional fields the record at item_id has and the input omits.
Dropped(db, item_id, item) ==
    IF ~Contains(db, item_id) THEN {}
    ELSE {f \in {"description", "tax"} :
            /\ GetItem(db, item_id)[f] # None
            /\ item[f] = None}

\* The history variables after request req got response out.
Record(req, out, others) ==
    LET created == req.op = "create" /\ out.status = HTTP_201_CREATED
        updated == req.op = "update" /\ out.status = HTTP_200_OK
        removed == req.op = "delete" /\ out.status = HTTP_204_NO_CONTENT
    IN  /\ stored' = IF created THEN (out.result.id :> req.item) @@ stored
                     ELSE IF updated THEN (req.item_id :> req.item) @@ stored
                     ELSE IF removed THEN Remove(stored, req.item_id)
                     ELSE stored
        /\ pristine' = IF created THEN pristine \cup {out.result.id}
                       ELSE IF updated \/ removed THEN pristine \ {req.item_id}
                       ELSE pristine
        /\ gone' = IF created THEN {}
                   ELSE IF removed THEN gone \cup {req.item_id}
                   ELSE gone
        /\ deleted' = IF removed THEN deleted \cup {req.item_id} ELSE deleted
        /\ raced' = IF removed /\ \E t \in BagToSet(others) :
                                     t.op = "update" /\ t.item_id = req.item_id
                    THEN raced \cup {req.item_id}
                    ELSE raced

\* The handler of req runs to completion; others are the requests still in flight.
Serve(req, others) ==
    \E new_id \in IF req.op = "create" THEN uuid4 ELSE {NoPath} :
        \E out \in {Dispatch(fake_db, req, new_id)} :
            /\ fake_db' = out.db
            /\ issued' = IF req.op = "create" THEN Append(issued, new_id) ELSE issued
            /\ last' = [op |-> req.op, item_id |-> req.item_id, item |-> req.item,
                        status |-> out.status, result |-> out.result,
                        dropped |-> IF req.op = "update"
                                    THEN Dropped(fake_db, req.item_id, req.item)
                                    ELSE {}]
            /\ Record(req, out, others)

\* Body validation fails: the framework answers 422 and calls no handler.
Reject(op, item_id, errors) ==
    /\ last' = [op |-> op, item_id |-> item_id, item |-> NoItem,
                status |-> Unprocessable(fake_db, errors).status,
                result |-> Unprocessable(fake_db, errors).result,
                dropped |-> {}]
    /\ UNCHANGED <<fake_db, issued, inflight, stored, pristine, gone, deleted, raced>>

Init ==
    /\ fake_db = <<>>
    /\ issued = <<>>
    /\ inflight = EmptyBag
    /\ last = [op |-> "start", item_id |-> NoPath, item |-> NoItem,
               status |-> 0, result |-> NoItem, dropped |-> {}]
    /\ stored = <<>>
    /\ pristine = {}
    /\ gone = {}
    /\ deleted = {}
    /\ raced = {}

(* One request at a time: a request is read, validated and handled in one step. *)

PostItems ==
    \E body \in ValidBodies :
        /\ Serve(Request("create", NoPath, ItemCreate(body).item), EmptyBag)
        /\ UNCHANGED inflight

PostInvalid ==
    \E errors \in ValidationErrors : Reject("create", NoPath, errors)

GetItems ==
    /\ Serve(Request("list", NoPath, NoItem), EmptyBag)
    /\ UNCHANGED inflight

GetItemById ==
    \E item_id \in PathIds :
        /\ Serve(Request("get", item_id, NoItem), EmptyBag)
        /\ UNCHANGED inflight

PutItem ==
    \E item_id \in PathIds, body \in ValidBodies :
        /\ Serve(Request("update", item_id, ItemCreate(body).item), EmptyBag)
        /\ UNCHANGED inflight

PutInvalid ==
    \E item_id \in PathIds, errors \in ValidationErrors : Reject("update", item_id, errors)

DeleteItem ==
    \E item_id \in PathIds :
        /\ Serve(Request("delete", item_id, NoItem), EmptyBag)
        /\ UNCHANGED inflight

Next ==
    \/ PostItems
    \/ PostInvalid
    \/ GetItems
    \/ GetItemById
    \/ PutItem
    \/ PutInvalid
    \/ DeleteItem

Spec == Init /\ [][Next]_vars

-----------------------------------------------------------------------------
(* Requests handled concurrently: one task per request.  A task is in flight  *)
(* from the moment its body is validated; its handler then runs in one step,  *)
(* because no handler body holds an await.                                    *)

\* Inputs of the concurrent runs: writes only, with a name and an optional description.
RaceItems == {ItemCreate(b).item : b \in {x \in ValidBodies : x.name = Some("Pen") /\ x.tax = None}}

RaceRequests ==
    {Request("create", NoPath, item) : item \in RaceItems}
    \cup {Request("update", item_id, item) : item_id \in PathIds, item \in RaceItems}
    \cup {Request("delete", item_id, NoItem) : item_id \in PathIds}

Arrive ==
    \E req \in RaceRequests :
        /\ BagCardinality(inflight) < MaxInFlight
        /\ inflight' = inflight (+) SetToBag({req})
        /\ UNCHANGED <<fake_db, issued, last, stored, pristine, gone, deleted, raced>>

Run ==
    \E req \in BagToSet(inflight) :
        /\ inflight' = inflight (-) SetToBag({req})
        /\ Serve(req, inflight (-) SetToBag({req}))

ConcNext ==
    \/ Arrive
    \/ Run

ConcSpec == Init /\ [][ConcNext]_vars

-----------------------------------------------------------------------------
(* Properties *)

Range(q) == {q[i] : i \in DOMAIN q}

Handled(ops) == last.op \in ops /\ last.status # HTTP_422_UNPROCESSABLE

\* C1: Create answers 201 with a record whose id is non-empty and differs from
\* every id an earlier Create returned (deleted ones included), and whose
\* other fields are the payload's; reading that id back gives the same record,
\* and so does every Get of an id that no Update or Delete has touched since
\* its creation.
C1_CreateRoundTrip ==
    /\ \A i, j \in DOMAIN issued : i # j => issued[i] # issued[j]
    /\ Handled({"create"}) =>
          /\ last.status = HTTP_201_CREATED
          /\ last.result.id # ""
          /\ last.result.id = issued[Len(issued)]
          /\ last.result = Item(last.result.id, last.item)
          /\ read_item(fake_db, last.result.id).status = HTTP_200_OK
          /\ read_item(fake_db, last.result.id).result = Item(last.result.id, last.item)
    /\ (last.op = "get" /\ last.item_id \in pristine) =>
          /\ last.status = HTTP_200_OK
          /\ last.result = Item(last.item_id, stored[last.item_id])

C1_Witness ==
    /\ last.op = "get"
    /\ last.item_id \in pristine
    /\ last.status = HTTP_200_OK
    /\ last.result.description = None
    /\ last.result.tax = None
    /\ last.item_id = issued[Len(issued)]
    /\ deleted # {}

C3_PartialUpdate ==
    [][(last'.op = "update" /\ last'.status = HTTP_200_OK /\ Contains(fake_db, last'.item_id)) =>
          \A f \in {"description", "tax"} :
              last'.item[f] = None =>
                  GetItem(fake_db', last'.item_id)[f] = GetItem(fake_db, last'.item_id)[f]]_vars

\* C4: once a Delete of an id has succeeded and no Create has come since, the id
\* is absent, and every Get, Update and Delete of it is answered 404 and
\* changes nothing; in particular no second Delete of it succeeds.
C4_DeletedStaysGone ==
    [][\A id \in gone :
          /\ ~Contains(fake_db, id)
          /\ (last'.item_id = id /\ last'.op \in {"get", "update", "delete"}
                /\ last'.status # HTTP_422_UNPROCESSABLE) =>
                 (last'.status = HTTP_404_NOT_FOUND /\ fake_db' = fake_db)]_vars

C4_Witness ==
    /\ last.op = "delete"
    /\ last.status = HTTP_404_NOT_FOUND
    /\ last.item_id \in gone
    /\ fake_db # <<>>

\* C5: the records List returns are exactly those of the ids created and not
\* deleted, each with the input of the latest successful Create or Update of
\* that id; with no Delete so far there are as many as Creates, under
\* distinct ids.
C5_ListRefinesHistory ==
    LET listed == read_items(fake_db).result
    IN  /\ Range(listed) = {Item(id, stored[id]) : id \in DOMAIN stored}
        /\ Len(listed) = Cardinality(DOMAIN stored)
        /\ Cardinality({listed[i].id : i \in DOMAIN listed}) = Len(listed)
        /\ deleted = {} => Len(listed) = Len(issued)
        /\ last.op = "list" => (last.status = HTTP_200_OK /\ last.result = listed)

C5_Witness ==
    /\ last.op = "list"
    /\ Len(last.result) = 2
    /\ last.result[1].name = last.result[2].name
    /\ last.result[1].id # last.result[2].id
    /\ deleted = {}

\* C6: a Get, Update or Delete of an id that is not in the collection is
\* answered 404 and leaves the collection as it was.
C6_AbsentIsNotFound ==
    [][(last'.op \in {"get", "update", "delete"} /\ last'.status # HTTP_422_UNPROCESSABLE
          /\ ~Contains(fake_db, last'.item_id)) =>
             (last'.status = HTTP_404_NOT_FOUND /\ fake_db' = fake_db)]_vars

C6_Witness ==
    /\ last.op = "update"
    /\ last.status = HTTP_404_NOT_FOUND
    /\ last.item_id \notin Range(issued)
    /\ fake_db # <<>>

\* C7 (as claimed): every Item in the collection has a non-empty name.
C7_NonEmptyNames ==
    \A i \in DOMAIN fake_db : fake_db[i].value.name # ""

\* C7 (amended): every Item in the collection has a name that is text, the empty
\* string included; a Create or Update is rejected only for a missing name or
\* price, and an accepted one with the empty name is stored under that name.
C7_NamesAreText ==
    /\ \A i \in DOMAIN fake_db : fake_db[i].value.name \in Names
    /\ last.status = HTTP_422_UNPROCESSABLE =>
          /\ last.result.detail # {}
          /\ \A e \in last.result.detail :
                e.loc \in {"name", "price"} /\ e.msg = "field required"
    /\ (Handled({"create", "update"}) /\ last.status # HTTP_404_NOT_FOUND) =>
          GetItem(fake_db, last.result.id).name = last.item.name

C7_Witness ==
    /\ last.op = "create"
    /\ last.status = HTTP_201_CREATED
    /\ last.item.name = ""
    /\ GetItem(fake_db, last.result.id).name = ""

\* C8: a successful Delete is answered 204 and the handler returns nothing.
C8_DeleteNoContent ==
    (Handled({"delete"}) /\ last.status # HTTP_404_NOT_FOUND) =>
        (last.status = HTTP_204_NO_CONTENT /\ DOMAIN last.result = {})

\* C9: every record is stored under its own id, which uuid4 generated; no two
\* entries share a key; Update answers with the id it was called with and
\* leaves the set of keys as it was.
C9_KeysAreIds ==
    /\ [](/\ \A i \in DOMAIN fake_db :
                /\ fake_db[i].value.id = fake_db[i].key
                /\ fake_db[i].key \in Range(issued)
          /\ \A i, j \in DOMAIN fake_db : i # j => fake_db[i].key # fake_db[j].key
          /\ (last.op = "update" /\ last.status = HTTP_200_OK) =>
                last.result.id = last.item_id)
    /\ [][last'.op = "update" => Keys(fake_db') = Keys(fake_db)]_vars

C9_Witness ==
    /\ last.op = "update"
    /\ last.status = HTTP_200_OK
    /\ Len(fake_db) = 2
    /\ fake_db[1].key = last.item_id
    /\ fake_db[1].value.id = last.item_id

\* C10: with requests in flight concurrently, an id a Delete has succeeded on is
\* absent from the collection in every later state, and an Update of it that
\* runs after the Delete is answered 404.
C10_NoResurrection ==
    /\ \A id \in deleted : ~Contains(fake_db, id)
    /\ (last.op = "update" /\ last.item_id \in deleted) => last.status = HTTP_404_NOT_FOUND

C10_Witness ==
    /\ last.op = "update"
    /\ last.status = HTTP_404_NOT_FOUND
    /\ last.item_id \in raced
    /\ fake_db # <<>>

====
